---- MODULE Spec2Model ----
(***************************************************************************)
(* Medusa speculative decoding of whisper_medusa/models/medusa_utils.py:   *)
(* generate_medusa_buffers, generate_candidates, tree_decoding,            *)
(* evaluate_posterior and update_inference_inputs.                         *)
(*                                                                         *)
(* Tensors are functions over 0..n-1, so that node ids, path ids and       *)
(* positions are the indices of the source.                                *)
(***************************************************************************)
EXTENDS Integers, Sequences, FiniteSets, TLC

\* ------------------------------------------------------------- bounds
\* longest BranchSpec given to generate_medusa_buffers
MaxDepth == 3
\* largest number of root-to-leaf paths (product of a BranchSpec)
MaxPaths == 8

\* ------------------------------------------------------------- tensors
\* Python's None where a token id is expected
None == -1

Size(t) == Cardinality(DOMAIN t)

Empty == [i \in {} |-> 0]

\* torch.cat of two 1-D tensors
Cat(s, t) ==
    [i \in 0..(Size(s) + Size(t) - 1) |-> IF i < Size(s) THEN s[i] ELSE t[i - Size(s)]]

\* torch.arange(lo, hi)
Arange(lo, hi) == [i \in 0..(hi - lo - 1) |-> lo + i]

\* t.repeat(n, 1).flatten(): the whole of t, n times over
RepeatFlat(t, n) == [i \in 0..(Size(t) * n - 1) |-> t[i % Size(t)]]

\* t.repeat(n, 1).transpose(0, 1).flatten(): every element of t, n times in a row
RepeatEach(t, n) == [i \in 0..(Size(t) * n - 1) |-> t[i \div n]]

RECURSIVE SumTo(_, _)
\* t[:n].sum()
SumTo(t, n) == IF n <= 0 THEN 0 ELSE SumTo(t, n - 1) + t[n - 1]

RECURSIVE ProdTo(_, _)
\* torch.prod(t[:n])
ProdTo(t, n) == IF n <= 0 THEN 1 ELSE ProdTo(t, n - 1) * t[n - 1]

\* ------------------------------------------------ generate_medusa_buffers
\* torch.cumprod(medusa_choices, dim=0)
CumulativeProduct(choices) == [i \in DOMAIN choices |-> ProdTo(choices, i + 1)]

\* torch.cumsum(medusa_choices, dim=0)
CumulativeSum(choices) == [i \in DOMAIN choices |-> SumTo(choices, i + 1)]

\* medusa_len = cumulative_product.sum()
MedusaLen(choices) == SumTo(CumulativeProduct(choices), Size(choices))

RECURSIVE TreeIndicesLoopEach(_, _)
\* mutant of TreeIndicesLoop: every pool index repeated in a row (child-major)
TreeIndicesLoopEach(choices, n) ==
    IF n <= 0 THEN Empty
    ELSE LET i == n - 1
             prev_cumsum == IF i = 0 THEN 0 ELSE CumulativeSum(choices)[i - 1]
             prev_cumprod == IF i = 0 THEN 1 ELSE CumulativeProduct(choices)[i - 1]
             cumsum == CumulativeSum(choices)[i]
             slice == RepeatEach(Arange(prev_cumsum, cumsum), prev_cumprod)
         IN  Cat(TreeIndicesLoopEach(choices, i), slice)

RECURSIVE TreeIndicesLoop(_, _)
\* 1. the loop over i that appends one slice per depth to tree_indices
TreeIndicesLoop(choices, n) ==
    IF n <= 0 THEN Empty
    ELSE LET i == n - 1
             prev_cumsum == IF i = 0 THEN 0 ELSE CumulativeSum(choices)[i - 1]
             prev_cumprod == IF i = 0 THEN 1 ELSE CumulativeProduct(choices)[i - 1]
             cumsum == CumulativeSum(choices)[i]
             slice == RepeatFlat(Arange(prev_cumsum, cumsum), prev_cumprod)
         IN  Cat(TreeIndicesLoop(choices, i), slice)

TreeIndices(choices) == TreeIndicesLoop(choices, Size(choices))

\* torch.eye(medusa_len, medusa_len)
Eye(n) == [r \in 0..(n - 1) |-> [c \in 0..(n - 1) |-> IF r = c THEN 1 ELSE 0]]

\* mutant of ParentIdx: .transpose(0, 1) left out, the parents tiled
ParentIdxTiled(choices, i) ==
    LET prev_cumprod_sum == SumTo(CumulativeProduct(choices), i - 1)
        cumprod_sum == SumTo(CumulativeProduct(choices), i)
    IN  RepeatFlat(Arange(prev_cumprod_sum, cumprod_sum), choices[i])

\* parent_idx of iteration i: every node of the depth above, choices[i] times in a row
ParentIdx(choices, i) ==
    LET prev_cumprod_sum == SumTo(CumulativeProduct(choices), i - 1)
        cumprod_sum == SumTo(CumulativeProduct(choices), i)
    IN  RepeatEach(Arange(prev_cumprod_sum, cumprod_sum), choices[i])

RECURSIVE AttnMaskLoop(_, _)
\* 2. the loop over i that adds the parent's row to every row of depth i
AttnMaskLoop(choices, n) ==
    IF n <= 0 THEN Eye(MedusaLen(choices))
    ELSE LET i == n - 1
             mask == AttnMaskLoop(choices, i)
             cumprod_sum == SumTo(CumulativeProduct(choices), i)
             parent_idx == ParentIdx(choices, i)
         IN  IF i = 0 THEN mask
             ELSE [r \in DOMAIN mask |->
                     IF cumprod_sum <= r /\ r < cumprod_sum + Size(parent_idx)
                     THEN [c \in DOMAIN mask[r] |->
                             mask[r][c] + mask[parent_idx[r - cumprod_sum]][c]]
                     ELSE mask[r]]

MedusaAttnMask(choices) == AttnMaskLoop(choices, Size(choices))

RECURSIVE PositionIdsLoop(_, _)
\* 3. medusa_position_ids += [i] * cumulative_product[i]
PositionIdsLoop(choices, n) ==
    IF n <= 0 THEN Empty
    ELSE Cat(PositionIdsLoop(choices, n - 1),
             [k \in 0..(CumulativeProduct(choices)[n - 1] - 1) |-> n - 1])

MedusaPositionIds(choices) == PositionIdsLoop(choices, Size(choices))

\* mutant of RetrieveColumn: .transpose(0, 1) left out, the depth's nodes tiled
RetrieveColumnTiled(choices, i) ==
    LET medusa_len_prod == ProdTo(choices, Size(choices))
        prev_cumprod_sum == SumTo(CumulativeProduct(choices), i)
        cumprod_sum == SumTo(CumulativeProduct(choices), i + 1)
    IN  RepeatFlat(Arange(prev_cumprod_sum, cumprod_sum),
                   medusa_len_prod \div (cumprod_sum - prev_cumprod_sum))

\* 4. column i of retrieve_indices
RetrieveColumn(choices, i) ==
    LET medusa_len_prod == ProdTo(choices, Size(choices))
        prev_cumprod_sum == SumTo(CumulativeProduct(choices), i)
        cumprod_sum == SumTo(CumulativeProduct(choices), i + 1)
    IN  RepeatEach(Arange(prev_cumprod_sum, cumprod_sum),
                   medusa_len_prod \div (cumprod_sum - prev_cumprod_sum))

\* retrieve_indices[p][i], medusa_len_prod rows of len(medusa_choices) columns
RetrieveIndices(choices) ==
    [p \in 0..(ProdTo(choices, Size(choices)) - 1) |->
        [i \in DOMAIN choices |-> RetrieveColumn(choices, i)[p]]]

\* the dictionary generate_medusa_buffers returns
GenerateMedusaBuffers(choices) ==
    [medusa_attn_mask |-> MedusaAttnMask(choices),
     tree_indices |-> TreeIndices(choices),
     medusa_position_ids |-> MedusaPositionIds(choices),
     retrieve_indices |-> RetrieveIndices(choices)]

\* ---------------------------- generate_medusa_buffers on any list of integers
\* the function has no check of its own: what it raises is what torch or Python
\* raises on the way. cumulative_product[:i].sum()
CumprodSum(choices, i) == SumTo(CumulativeProduct(choices), i)

\* lines 325-332 raise: torch.eye of a negative size, torch.arange of a negative
\* end
HeadRaises(choices) ==
    \/ MedusaLen(choices) < 0
    \/ CumulativeSum(choices)[Size(choices) - 1] < 0

\* iteration i of the tree_indices loop raises: repeat by a negative prev_cumprod
TreeIndicesRaises(choices, i) ==
    i > 0 /\ CumulativeProduct(choices)[i - 1] < 0

\* iteration i of the attention mask loop raises: torch.arange over a reversed
\* range, repeat by a negative count, or rows missing for the += of line 355
AttnMaskRaises(choices, i) ==
    /\ i > 0
    /\ CumprodSum(choices, i - 1) # -1
    /\ \/ CumprodSum(choices, i) < CumprodSum(choices, i - 1)
       \/ choices[i] < 0
       \/ MedusaLen(choices) < CumprodSum(choices, i + 1)

\* what iteration i of the retrieve_indices loop raises, if anything
RetrieveRaises(choices, i) ==
    LET medusa_len_prod == ProdTo(choices, Size(choices))
        width == CumulativeProduct(choices)[i]
    IN  IF width < 0 THEN {"RuntimeError"}
        ELSE IF width = 0 THEN {"ZeroDivisionError"}
        ELSE IF medusa_len_prod \div width < 0
                \/ width * (medusa_len_prod \div width) # medusa_len_prod
             THEN {"RuntimeError"}
        ELSE {}

RECURSIVE RetrieveLoopRaises(_, _)
\* what the retrieve_indices loop raises from iteration i on: the first failure
RetrieveLoopRaises(choices, i) ==
    IF i >= Size(choices) THEN {}
    ELSE IF RetrieveRaises(choices, i) # {} THEN RetrieveRaises(choices, i)
    ELSE RetrieveLoopRaises(choices, i + 1)

\* the exceptions generate_medusa_buffers can end with, none when it returns: an
\* empty list fails in torch.eye(0.0, 0.0) or in cumulative_sum[-1]
BuffersFailure(choices) ==
    IF Size(choices) = 0 THEN {"TypeError", "IndexError"}
    ELSE IF \/ HeadRaises(choices)
            \/ \E i \in DOMAIN choices : TreeIndicesRaises(choices, i)
            \/ \E i \in DOMAIN choices : AttnMaskRaises(choices, i)
            \/ ProdTo(choices, Size(choices)) < 0
         THEN {"RuntimeError"}
    ELSE RetrieveLoopRaises(choices, 0)

\* ------------------------------------------------------ the base model
\* the vocabulary
Tokens == {0, 1}

\* context buckets the base model tells apart
Buckets == {0, 1, 2}

\* logits over the vocabulary: no two scores equal, so argmax and top-k are
\* determined
RankVecs == {v \in [Tokens -> 0..(Cardinality(Tokens) - 1)] :
                \A s, t \in Tokens : s # t => v[s] # v[t]}

\* the deterministic base models: one logits vector per context bucket
BaseModels == [Buckets -> RankVecs]

\* the bucket of a context: every token and the length count
Hash(ctx) == (SumTo(ctx, Size(ctx)) + Size(ctx)) % Cardinality(Buckets)

\* model(...).logits at the last position of ctx
Forward(m, ctx) == m[Hash(ctx)]

\* torch.argmax(v): the first index of the largest value
Argmax(v) ==
    CHOOSE t \in DOMAIN v :
        /\ \A u \in DOMAIN v : v[u] <= v[t]
        /\ \A u \in DOMAIN v : u < t => v[u] < v[t]

\* torch.topk(v, k).indices: the k highest-scoring tokens, best first
TopK(v, k) ==
    [j \in 0..(k - 1) |->
        CHOOSE t \in DOMAIN v : Cardinality({u \in DOMAIN v : v[u] > v[t]}) = j]

RECURSIVE CatAll(_, _)
\* torch.cat(lists[:n])
CatAll(lists, n) == IF n <= 0 THEN Empty ELSE Cat(CatAll(lists, n - 1), lists[n - 1])

RECURSIVE SizesFrom(_, _)
\* product of the sizes of lists[i:]
SizesFrom(lists, i) ==
    IF i >= Size(lists) THEN 1 ELSE Size(lists[i]) * SizesFrom(lists, i + 1)

\* torch.cartesian_prod(*lists): the last list varies fastest
CartesianProd(lists) ==
    [p \in 0..(SizesFrom(lists, 0) - 1) |->
        [i \in DOMAIN lists |->
            lists[i][(p \div SizesFrom(lists, i + 1)) % Size(lists[i])]]]

\* ----------------------------------------------------- generate_candidates
\* mutant of CandidateLists: the root taken from the first head's logits
CandidateListsHeadRoot(mlogits, lgts, topk) ==
    [i \in 0..Size(mlogits) |->
        IF i = 0 THEN [j \in {0} |-> Argmax(mlogits[0])]
        ELSE IF Cardinality({topk[h] : h \in DOMAIN topk}) = 1
             THEN TopK(mlogits[i - 1], topk[0])
             ELSE TopK(mlogits[i - 1], topk[i - 1])]

\* the list `candidates` before torch.cat: the greedy root, then top-k of every head
CandidateLists(mlogits, lgts, topk) ==
    [i \in 0..Size(mlogits) |->
        IF i = 0 THEN [j \in {0} |-> Argmax(lgts)]
        ELSE IF Cardinality({topk[h] : h \in DOMAIN topk}) = 1
             THEN TopK(mlogits[i - 1], topk[0])
             ELSE TopK(mlogits[i - 1], topk[i - 1])]

\* candidates = torch.cartesian_prod(*candidates)
PathCandidates(mlogits, lgts, topk) == CartesianProd(CandidateLists(mlogits, lgts, topk))

\* tree_candidates = candidates_flat[tree_indices]
TreeCandidates(mlogits, lgts, topk, tree_indices) ==
    LET lists == CandidateLists(mlogits, lgts, topk)
        candidates_flat == CatAll(lists, Size(lists))
    IN  [n \in DOMAIN tree_indices |-> candidates_flat[tree_indices[n]]]

\* ----------------------------------------------------------- tree_decoding
RECURSIVE InPositionOrder(_, _, _)
\* the tokens of the nodes S by ascending position id (node id among equals)
InPositionOrder(S, position_ids, tokens) ==
    IF S = {} THEN Empty
    ELSE LET n == CHOOSE x \in S :
                    \A y \in S : \/ position_ids[x] < position_ids[y]
                                 \/ position_ids[x] = position_ids[y] /\ x <= y
         IN  Cat([j \in {0} |-> tokens[n]],
                 InPositionOrder(S \ {n}, position_ids, tokens))

\* what node n of the tree attends to: the committed prefix in the cache, then the
\* tree tokens its mask row lets through, at position_ids = medusa_position_ids + length
TreeContext(ids, tcands, buffers, n) ==
    LET mask == buffers.medusa_attn_mask
        position_ids == [j \in DOMAIN buffers.medusa_position_ids |->
                            buffers.medusa_position_ids[j] + Size(ids)]
    IN  Cat(ids, InPositionOrder({j \in DOMAIN mask[n] : mask[n][j] # 0},
                                 position_ids, tcands))

\* outputs.logits[0][0]: the base logits of every tree node in one forward pass
OrigTreeLogits(m, ids, tcands, buffers) ==
    [n \in DOMAIN tcands |-> Forward(m, TreeContext(ids, tcands, buffers, n))]

\* logits = orig_tree_logits[0, retrieve_indices]
TreeDecoding(m, ids, tcands, buffers) ==
    LET orig_tree_logits == OrigTreeLogits(m, ids, tcands, buffers)
    IN  [p \in DOMAIN buffers.retrieve_indices |->
            [i \in DOMAIN buffers.retrieve_indices[p] |->
                orig_tree_logits[buffers.retrieve_indices[p][i]]]]

\* ------------------------------------------------------ evaluate_posterior
\* the size torch broadcasts two sizes to, one of them 1 when they differ
BroadcastDim(a, b) == IF a = 1 THEN b ELSE a

\* the index into a dimension of size n that broadcasting reads for index i
BroadcastIdx(n, i) == IF n = 1 THEN 0 ELSE i

\* posterior_mask = (candidates[:, 1:] == torch.argmax(logits[:, :-1], dim=-1)).int()
PosteriorMask(lgts, cands) ==
    LET rows == BroadcastDim(Size(cands), Size(lgts))
        cols == BroadcastDim(Size(cands[0]) - 1, Size(lgts[0]) - 1)
    IN  [p \in 0..(rows - 1) |->
            [i \in 0..(cols - 1) |->
                IF cands[BroadcastIdx(Size(cands), p)]
                        [1 + BroadcastIdx(Size(cands[0]) - 1, i)]
                   = Argmax(lgts[BroadcastIdx(Size(lgts), p)]
                                [BroadcastIdx(Size(lgts[0]) - 1, i)])
                THEN 1 ELSE 0]]

\* torch.cumprod(row, dim=1)
CumProd(row) == [i \in DOMAIN row |-> ProdTo(row, i + 1)]

\* mutant of CandidatesAcceptLength: the matches counted without torch.cumprod
CandidatesAcceptLengthSum(mask) ==
    [p \in DOMAIN mask |-> SumTo(mask[p], Size(mask[p]))]

\* candidates_accept_length = torch.cumprod(posterior_mask, dim=1).sum(dim=1)
CandidatesAcceptLength(mask) ==
    [p \in DOMAIN mask |-> SumTo(CumProd(mask[p]), Size(mask[p]))]

\* t.max()
MaxOf(t) == CHOOSE x \in {t[p] : p \in DOMAIN t} : \A q \in DOMAIN t : t[q] <= x

\* the last index of the largest value
ArgmaxLast(v) ==
    CHOOSE t \in DOMAIN v :
        /\ \A u \in DOMAIN v : v[u] <= v[t]
        /\ \A u \in DOMAIN v : u > t => v[u] < v[t]

\* mutant of EvaluatePosteriorGreedy: among equal lengths the last path wins
EvaluatePosteriorGreedyLast(lgts, cands) ==
    LET candidates_accept_length == CandidatesAcceptLength(PosteriorMask(lgts, cands))
        accept == MaxOf(candidates_accept_length)
    IN  [best_candidate |-> IF accept = 0 THEN 0 ELSE ArgmaxLast(candidates_accept_length),
         accept_length |-> accept]

\* the temperature == 0 branch: (best_candidate, accept_length)
EvaluatePosteriorGreedy(lgts, cands) ==
    LET candidates_accept_length == CandidatesAcceptLength(PosteriorMask(lgts, cands))
        accept == MaxOf(candidates_accept_length)
    IN  [best_candidate |-> IF accept = 0 THEN 0 ELSE Argmax(candidates_accept_length),
         accept_length |-> accept]

\* ---------------------------------------- evaluate_posterior, temperature > 0
\* floating-point values are kept in fixed point: probabilities and
\* exp(-entropy) in units of 1/ProbScale, posterior_threshold and posterior_alpha
\* in hundredths, logarithms in units of 1/10000
ProbScale == 100000

\* softmax over a vocabulary of two tokens: the probability of the token whose
\* scaled logit is larger by gap (tabulated for the gaps that occur)
SoftmaxOfGap(gap) ==
    CASE gap = 0 -> 50000
      [] gap = 1 -> 73106
      [] gap = 3 -> 95257

\* torch.softmax(v / temperature, dim=-1)
Softmax(v, temp) ==
    [t \in DOMAIN v |->
        LET o == CHOOSE u \in DOMAIN v : u # t
        IN  IF v[t] >= v[o] THEN SoftmaxOfGap((v[t] - v[o]) \div temp)
            ELSE ProbScale - SoftmaxOfGap((v[o] - v[t]) \div temp)]

\* posterior_prob = torch.softmax(logits[:, :-1] / temperature, dim=-1)
PosteriorProb(lgts, temp) ==
    [p \in DOMAIN lgts |->
        [i \in 0..(Size(lgts[p]) - 2) |-> Softmax(lgts[p][i], temp)]]

\* candidates_prob = torch.gather(posterior_prob, -1, candidates[:, 1:])
CandidatesProb(posterior_prob, cands) ==
    [p \in DOMAIN posterior_prob |->
        [i \in DOMAIN posterior_prob[p] |-> posterior_prob[p][i][cands[p][i + 1]]]]

\* exp(sum(prob * log(prob + 1e-5))) of a distribution, tabulated by its mode
ExpNegEntropy(dist) ==
    LET mode == dist[Argmax(dist)]
    IN  CASE mode = 50000 -> 50001
          [] mode = 73106 -> 55868
          [] mode = 95257 -> 82626

\* torch.exp(-posterior_entropy) at every position
ExpNegPosteriorEntropy(posterior_prob) ==
    [p \in DOMAIN posterior_prob |->
        [i \in DOMAIN posterior_prob[p] |-> ExpNegEntropy(posterior_prob[p][i])]]

\* torch.minimum(a, b)
Minimum(a, b) == IF a <= b THEN a ELSE b

\* threshold = minimum(posterior_threshold, exp(-entropy) * posterior_alpha), in
\* units of 1/(100 * ProbScale)
Threshold(exp_neg_entropy, threshold, alpha) ==
    [p \in DOMAIN exp_neg_entropy |->
        [i \in DOMAIN exp_neg_entropy[p] |->
            Minimum(threshold * ProbScale, exp_neg_entropy[p][i] * alpha)]]

\* variant of TypicalPosteriorMask: the comparison turned around
TypicalPosteriorMaskBelow(candidates_prob, thresholds) ==
    [p \in DOMAIN candidates_prob |->
        [i \in DOMAIN candidates_prob[p] |->
            IF candidates_prob[p][i] * 100 < thresholds[p][i] THEN 1 ELSE 0]]

\* posterior_mask = candidates_prob > threshold
TypicalPosteriorMask(candidates_prob, thresholds) ==
    [p \in DOMAIN candidates_prob |->
        [i \in DOMAIN candidates_prob[p] |->
            IF candidates_prob[p][i] * 100 > thresholds[p][i] THEN 1 ELSE 0]]

\* torch.log of a probability, tabulated
Log(prob) ==
    CASE prob = 50000 -> -6931
      [] prob = 73106 -> -3133
      [] prob = 26894 -> -13133
      [] prob = 95257 -> -486
      [] prob = 4743 -> -30486

\* likelihood = torch.sum(torch.log(candidates_prob[path, :accept_length]))
Likelihood(candidates_prob, path, accept) ==
    SumTo([i \in 0..(accept - 1) |-> Log(candidates_prob[path][i])], accept)

\* best_candidates[torch.argmax(likelihood)]: the first of the most likely among
\* the paths accepted to the full length
MostLikely(candidates_prob, lengths, accept) ==
    CHOOSE p \in DOMAIN lengths :
        /\ lengths[p] = accept
        /\ \A q \in DOMAIN lengths :
              lengths[q] = accept =>
                 /\ Likelihood(candidates_prob, q, accept)
                       <= Likelihood(candidates_prob, p, accept)
                 /\ q < p => Likelihood(candidates_prob, q, accept)
                                < Likelihood(candidates_prob, p, accept)

\* candidates_accept_length of the temperature > 0 branch
TypicalAcceptLengths(lgts, cands, temp, threshold, alpha) ==
    LET posterior_prob == PosteriorProb(lgts, temp)
        candidates_prob == CandidatesProb(posterior_prob, cands)
        thresholds == Threshold(ExpNegPosteriorEntropy(posterior_prob), threshold, alpha)
    IN  CandidatesAcceptLength(TypicalPosteriorMask(candidates_prob, thresholds))

\* the temperature > 0 branch: (best_candidate, accept_length)
EvaluatePosteriorTypical(lgts, cands, temp, threshold, alpha) ==
    LET candidates_prob == CandidatesProb(PosteriorProb(lgts, temp), cands)
        candidates_accept_length ==
            TypicalAcceptLengths(lgts, cands, temp, threshold, alpha)
        accept == MaxOf(candidates_accept_length)
    IN  [best_candidate |-> IF accept = 0 THEN 0
                            ELSE MostLikely(candidates_prob, candidates_accept_length,
                                            accept),
         accept_length |-> accept]

\* evaluate_posterior(logits, candidates, temperature, posterior_threshold,
\* posterior_alpha)
EvaluatePosteriorResult(lgts, cands, temp, threshold, alpha) ==
    IF temp = 0 THEN EvaluatePosteriorGreedy(lgts, cands)
    ELSE EvaluatePosteriorTypical(lgts, cands, temp, threshold, alpha)

\* ------------------------------------------------- update_inference_inputs
\* t[:n]
Slice(t, n) == [i \in 0..((IF n < Size(t) THEN n ELSE Size(t)) - 1) |-> t[i]]

\* additional_next_token = torch.argmax(logits[:, 0], dim=-1)
AdditionalNextToken(lgts) == [p \in DOMAIN lgts |-> Argmax(lgts[p][0])]

\* variant of SelectedNextTokens: the accepted continuations without the root
SelectedNextTokensNoRoot(cands, best, accept, lgts, use_base) ==
    LET path_tokens == Slice(cands[best], accept)
    IN  IF use_base THEN Cat(path_tokens, AdditionalNextToken(lgts)) ELSE path_tokens

\* next_tokens before the padding of finished sequences
SelectedNextTokens(cands, best, accept, lgts, use_base) ==
    LET path_tokens == Slice(cands[best], accept + 1)
    IN  IF use_base THEN Cat(path_tokens, AdditionalNextToken(lgts)) ELSE path_tokens

\* variant of PadFinished: the two factors exchanged
PadFinishedSwapped(tokens, pad, unfinished) ==
    [i \in DOMAIN tokens |-> tokens[i] * (1 - unfinished) + pad * unfinished]

\* next_tokens * unfinished_sequences + pad_token_id * (1 - unfinished_sequences)
PadFinished(tokens, pad, unfinished) ==
    [i \in DOMAIN tokens |-> tokens[i] * unfinished + pad * (1 - unfinished)]

\* variant of SelectedTreeIndices: the nodes of the first path, whatever the best
SelectedTreeIndicesFirstPath(retrieve_indices, best, accept) ==
    Slice(retrieve_indices[0], accept + 1)

\* selected_tree_indices = retrieve_indices[best_candidate, : accept_length + 1]
SelectedTreeIndices(retrieve_indices, best, accept) ==
    Slice(retrieve_indices[best], accept + 1)

\* the arguments model._update_medusa_outputs is called with
MedusaUpdateArgs(ids, best, accept, retrieve_indices, use_base) ==
    LET prev_input_len == Size(ids)
        selected_tree_indices == SelectedTreeIndices(retrieve_indices, best, accept)
    IN  [select_indices |-> [i \in DOMAIN selected_tree_indices |->
                                selected_tree_indices[i] + prev_input_len],
         selected_tree_indices |-> selected_tree_indices,
         accept_length |-> accept,
         prev_indices |-> Arange(0, prev_input_len),
         use_base_logits |-> use_base]

\* variant of UpdateInferenceInputs: pad_token_id is looked at only after the
\* tokens are appended, the cache updated and the counter advanced
UpdateInferenceInputsRaisesLate(ids, cands, best, accept, retrieve_indices, lgts, counter, eos, pad, unfinished, use_base) ==
    LET selected == SelectedNextTokens(cands, best, accept, lgts, use_base)
        appended == IF eos # None /\ pad # None
                    THEN PadFinished(selected, pad, unfinished)
                    ELSE selected
    IN  [raised |-> eos # None /\ pad = None,
         input_ids |-> Cat(ids, appended),
         logits |-> lgts[best][accept],
         new_token |-> counter + accept + (IF use_base THEN 2 ELSE 1),
         next_tokens |-> appended,
         update_called |-> TRUE,
         medusa_update |-> MedusaUpdateArgs(ids, best, accept, retrieve_indices,
                                            use_base)]

\* what one call does: the ValueError raised or the four values returned, with
\* the sequence and the counter as the call leaves them and the arguments of
\* model._update_medusa_outputs when the call reached it
UpdateInferenceInputs(ids, cands, best, accept, retrieve_indices, lgts, counter, eos, pad, unfinished, use_base) ==
    LET selected == SelectedNextTokens(cands, best, accept, lgts, use_base)
        appended == IF eos # None THEN PadFinished(selected, pad, unfinished)
                    ELSE selected
    IN  IF eos # None /\ pad = None
        THEN [raised |-> TRUE,
              input_ids |-> ids,
              new_token |-> counter,
              update_called |-> FALSE]
        ELSE [raised |-> FALSE,
              input_ids |-> Cat(ids, appended),
              logits |-> lgts[best][accept],
              new_token |-> counter + accept + (IF use_base THEN 2 ELSE 1),
              next_tokens |-> appended,
              update_called |-> TRUE,
              medusa_update |-> MedusaUpdateArgs(ids, best, accept, retrieve_indices,
                                                 use_base)]

\* ------------------------------------------------------------- state
VARIABLES
    pc,                  \* the call the generation loop makes next
    medusa_choices,      \* BranchSpec given to generate_medusa_buffers
    medusa_topk,         \* per-head top-K given to generate_candidates
    medusa_buffers,      \* the dictionary generate_medusa_buffers returned
    model,               \* the base model: its logits for every context bucket
    input_ids,           \* the running token sequence
    prompt_len,          \* length of input_ids before the first step
    logits,              \* base logits at the last position, seed of the next step
    medusa_logits,       \* per-head logits at the last position
    candidates,          \* PathCandidates: cartesian product, one row per path
    tree_candidates,     \* TreeCandidates: one token per tree node
    tree_logits,         \* tree_decoding's logits reordered by retrieve_indices
    temperature,         \* evaluate_posterior's temperature, 0 in greedy mode
    posterior_threshold, \* evaluate_posterior's posterior_threshold, in hundredths
    posterior_alpha,     \* evaluate_posterior's posterior_alpha, in hundredths
    best_candidate,      \* evaluate_posterior's first result
    accept_length,       \* evaluate_posterior's second result
    new_token,           \* the new-token counter
    next_tokens,         \* tokens the last update_inference_inputs appended
    medusa_update,       \* arguments of the last model._update_medusa_outputs call
    use_base_logits,     \* argument of the last update call: append the bonus token
    eos_token_id,        \* argument of the last update call: end token or None
    pad_token_id,        \* argument of the last update call: padding token or None
    unfinished_sequences \* 1 while this sequence has produced no end token

vars == <<pc, medusa_choices, medusa_topk, medusa_buffers, model, input_ids,
          prompt_len, logits, medusa_logits, candidates, tree_candidates,
          tree_logits, best_candidate, accept_length, new_token, next_tokens,
          medusa_update, use_base_logits, eos_token_id, pad_token_id,
          unfinished_sequences, temperature, posterior_threshold, posterior_alpha>>

config == <<medusa_choices, medusa_topk, model, prompt_len>>

posterior_args == <<temperature, posterior_threshold, posterior_alpha>>

update_args == <<use_base_logits, eos_token_id, pad_token_id>>

step == <<input_ids, logits, medusa_logits, candidates, tree_candidates,
          tree_logits, best_candidate, accept_length, new_token, next_tokens,
          medusa_update, unfinished_sequences>>

\* MedusaGenerationConfig's defaults, in hundredths
DefaultPosteriorThreshold == 9
DefaultPosteriorAlpha == 30

\* greedy mode: evaluate_posterior takes its temperature == 0 branch
GreedyMode ==
    /\ temperature = 0
    /\ posterior_threshold = DefaultPosteriorThreshold
    /\ posterior_alpha = DefaultPosteriorAlpha

\* every BranchSpec of positive integers within the bounds
BranchSpecs ==
    UNION {{b \in [0..(n - 1) -> 1..MaxPaths] : ProdTo(b, n) <= MaxPaths} : n \in 1..MaxDepth}

\* the loop has not run: no step-local tensor exists yet
NoStep ==
    /\ input_ids = Empty
    /\ prompt_len = 0
    /\ logits = Empty
    /\ medusa_logits = Empty
    /\ candidates = Empty
    /\ tree_candidates = Empty
    /\ tree_logits = Empty
    /\ best_candidate = 0
    /\ accept_length = 0
    /\ new_token = 0
    /\ next_tokens = Empty
    /\ medusa_update = Empty
    /\ unfinished_sequences = 1

\* generate_medusa_buffers(medusa_choices): runs once, before the loop
BuildBuffers ==
    /\ pc = "buffers"
    /\ BuffersFailure(medusa_choices) = {}
    /\ medusa_buffers' = GenerateMedusaBuffers(medusa_choices)
    /\ pc' = "candidates"
    /\ UNCHANGED <<config, posterior_args, update_args, step>>

\* generate_medusa_buffers on every BranchSpec, nothing else
InitBuffers ==
    /\ pc = "buffers"
    /\ medusa_choices \in BranchSpecs
    /\ medusa_topk = Empty
    /\ medusa_buffers = Empty
    /\ model = Empty
    /\ use_base_logits = FALSE
    /\ eos_token_id = None
    /\ pad_token_id = None
    /\ GreedyMode
    /\ NoStep

SpecBuffers == InitBuffers /\ [][BuildBuffers]_vars

\* generate_medusa_buffers ends with an exception and returns nothing
BuildBuffersRaises ==
    /\ pc = "buffers"
    /\ pc' \in BuffersFailure(medusa_choices)
    /\ UNCHANGED <<config, posterior_args, update_args, medusa_buffers, step>>

\* every list of at most MaxDepth integers near zero: empty, with zero or
\* negative entries, or a BranchSpec
AnyBranchSpecs == UNION {[0..(n - 1) -> -1..2] : n \in 0..MaxDepth}

\* generate_medusa_buffers on every such list, nothing else
InitAnyBuffers ==
    /\ pc = "buffers"
    /\ medusa_choices \in AnyBranchSpecs
    /\ medusa_topk = Empty
    /\ medusa_buffers = Empty
    /\ model = Empty
    /\ use_base_logits = FALSE
    /\ eos_token_id = None
    /\ pad_token_id = None
    /\ GreedyMode
    /\ NoStep

NextAnyBuffers ==
    \/ BuildBuffers
    \/ BuildBuffersRaises

SpecAnyBuffers == InitAnyBuffers /\ [][NextAnyBuffers]_vars

\* ------------------------------------------------------ the generation loop
\* most auxiliary heads
MaxHeads == 3
\* the loop stops once the sequence is this long
MaxLength == 4
\* most paths of a candidate tree (product of the top-K)
MaxTreePaths == 4

\* the decoder prompt the loop starts from
Prompt == [i \in {0} |-> 0]

\* every per-head top-K within the bounds: no head asks for more tokens than the
\* vocabulary holds (torch.topk)
TopKs ==
    UNION {{k \in [0..(h - 1) -> 1..Cardinality(Tokens)] : ProdTo(k, h) <= MaxTreePaths}
             : h \in 1..MaxHeads}

\* the BranchSpecs a top-K runs with: the root and one level per head, or the
\* single-node tree [1] of the loop without speculation (one head)
ChoicesFor(topk) ==
    {Cat([i \in {0} |-> 1], topk)} \cup (IF Size(topk) = 1 THEN {[i \in {0} |-> 1]} ELSE {})

\* before the first step: the prompt has been run through the model once
Init ==
    /\ pc = "buffers"
    /\ medusa_topk \in TopKs
    /\ medusa_choices \in ChoicesFor(medusa_topk)
    /\ medusa_buffers = Empty
    /\ model \in BaseModels
    /\ use_base_logits = FALSE
    /\ eos_token_id = None
    /\ pad_token_id = None
    /\ GreedyMode
    /\ input_ids = Prompt
    /\ prompt_len = Size(Prompt)
    /\ logits = Forward(model, Prompt)
    /\ medusa_logits = Empty
    /\ candidates = Empty
    /\ tree_candidates = Empty
    /\ tree_logits = Empty
    /\ best_candidate = 0
    /\ accept_length = 0
    /\ new_token = 0
    /\ next_tokens = Empty
    /\ medusa_update = Empty
    /\ unfinished_sequences = 1

\* generate_candidates on the heads' logits of this step
GenerateCandidates ==
    /\ pc = "candidates"
    /\ medusa_topk # Empty
    /\ \E mlogits \in [DOMAIN medusa_topk -> RankVecs] :
        /\ medusa_logits' = mlogits
        /\ candidates' = PathCandidates(mlogits, logits, medusa_topk)
        /\ tree_candidates' =
              TreeCandidates(mlogits, logits, medusa_topk, medusa_buffers.tree_indices)
    /\ pc' = "tree"
    /\ UNCHANGED <<config, posterior_args, update_args, medusa_buffers, input_ids, logits,
                   tree_logits, best_candidate, accept_length, new_token,
                   next_tokens, medusa_update, unfinished_sequences>>

\* tree_decoding: one forward pass over the tree, reordered by path
TreeDecode ==
    /\ pc = "tree"
    /\ tree_logits' = TreeDecoding(model, input_ids, tree_candidates, medusa_buffers)
    /\ pc' = "posterior"
    /\ UNCHANGED <<config, posterior_args, update_args, medusa_buffers, input_ids, logits,
                   medusa_logits, candidates, tree_candidates, best_candidate,
                   accept_length, new_token, next_tokens, medusa_update,
                   unfinished_sequences>>

\* evaluate_posterior on the verified logits of this step
EvaluatePosterior ==
    /\ pc = "posterior"
    /\ LET r == EvaluatePosteriorResult(tree_logits, candidates, temperature,
                                        posterior_threshold, posterior_alpha)
       IN  /\ best_candidate' = r.best_candidate
           /\ accept_length' = r.accept_length
    /\ pc' = "update"
    /\ UNCHANGED <<config, posterior_args, update_args, medusa_buffers, input_ids, logits,
                   medusa_logits, candidates, tree_candidates, tree_logits,
                   new_token, next_tokens, medusa_update, unfinished_sequences>>

\* the sequence is finished once an appended token is the end token
StillUnfinished(unfinished, tokens, eos) ==
    IF eos # None /\ \E i \in DOMAIN tokens : tokens[i] = eos THEN 0 ELSE unfinished

\* the loop goes on until the maximum length; a finished sequence is kept in the
\* batch (and padded) only as long as the loop still runs for another one
NextCall(ids, unfinished) ==
    IF Size(ids) >= MaxLength THEN {"done"}
    ELSE IF unfinished = 0 THEN {"done", "candidates"}
    ELSE {"candidates"}

\* the candidates, the tree logits and the verdict are local to one step: the
\* next step computes them anew and nothing reads them in between
StepTensorsDropped ==
    /\ medusa_logits' = Empty
    /\ candidates' = Empty
    /\ tree_candidates' = Empty
    /\ tree_logits' = Empty
    /\ best_candidate' = 0
    /\ accept_length' = 0

\* the eos_token_id / pad_token_id a call can be given
EosPadArgs == {<<None, None>>, <<1, None>>, <<1, 0>>}

\* a sequence is finished only by the end token, so a finished sequence is
\* updated with eos_token_id set
EosPadArgsFor(unfinished) ==
    IF unfinished = 0 THEN {a \in EosPadArgs : a[1] # None} ELSE EosPadArgs

\* update_inference_inputs returns, and the loop decides whether to go on
Update ==
    /\ pc = "update"
    /\ \E use_base \in BOOLEAN, eos_pad \in EosPadArgsFor(unfinished_sequences) :
        LET r == UpdateInferenceInputs(input_ids, candidates, best_candidate,
                     accept_length, medusa_buffers.retrieve_indices, tree_logits,
                     new_token, eos_pad[1], eos_pad[2], unfinished_sequences,
                     use_base)
        IN  /\ ~r.raised
            /\ use_base_logits' = use_base
            /\ eos_token_id' = eos_pad[1]
            /\ pad_token_id' = eos_pad[2]
            /\ input_ids' = r.input_ids
            /\ logits' = r.logits
            /\ new_token' = r.new_token
            /\ next_tokens' = r.next_tokens
            /\ medusa_update' = r.medusa_update
            /\ unfinished_sequences' =
                  StillUnfinished(unfinished_sequences, r.next_tokens, eos_pad[1])
            /\ pc' \in NextCall(r.input_ids, unfinished_sequences')
    /\ StepTensorsDropped
    /\ UNCHANGED <<config, posterior_args, medusa_buffers>>

\* update_inference_inputs raises ValueError: eos_token_id without pad_token_id
UpdateRaises ==
    /\ pc = "update"
    /\ \E use_base \in BOOLEAN, eos_pad \in EosPadArgsFor(unfinished_sequences) :
        LET r == UpdateInferenceInputs(input_ids, candidates, best_candidate,
                     accept_length, medusa_buffers.retrieve_indices, tree_logits,
                     new_token, eos_pad[1], eos_pad[2], unfinished_sequences,
                     use_base)
        IN  /\ r.raised
            /\ use_base_logits' = use_base
            /\ eos_token_id' = eos_pad[1]
            /\ pad_token_id' = eos_pad[2]
            /\ input_ids' = r.input_ids
            /\ new_token' = r.new_token
            /\ medusa_update' = IF r.update_called THEN r.medusa_update
                                ELSE medusa_update
    /\ pc' = "error"
    /\ UNCHANGED <<config, posterior_args, medusa_buffers, logits, medusa_logits,
                   candidates, tree_candidates, tree_logits, best_candidate,
                   accept_length, next_tokens, unfinished_sequences>>

Next ==
    \/ BuildBuffers
    \/ GenerateCandidates
    \/ TreeDecode
    \/ EvaluatePosterior
    \/ Update
    \/ UpdateRaises

Spec == Init /\ [][Next]_vars

\* ------------------------------------- evaluate_posterior with temperature > 0
\* most (path, position) cells of the candidates evaluate_posterior is given
MaxPosteriorCells == 4

\* (number of paths, verified positions per path)
PosteriorShapes ==
    {sh \in (1..MaxPosteriorCells) \X (1..MaxPosteriorCells) :
        sh[1] * sh[2] <= MaxPosteriorCells}

\* verified logits at one position: both tokens level, or token 1 ahead
PosteriorLogitVecs == {[t \in Tokens |-> 0], [t \in Tokens |-> 3 * t]}

\* the temperatures, and the posterior_alpha values in hundredths
Temperatures == {1, 3}
PosteriorAlphas == {5, 10, DefaultPosteriorAlpha}

\* evaluate_posterior alone: candidates that share the root token 0 and verified
\* logits of the same shape, whose last position evaluate_posterior drops
InitPosterior ==
    /\ pc = "posterior"
    /\ \E sh \in PosteriorShapes :
        /\ \E c \in [0..(sh[1] - 1) -> [1..sh[2] -> Tokens]] :
              candidates = [p \in 0..(sh[1] - 1) |->
                               [i \in 0..sh[2] |-> IF i = 0 THEN 0 ELSE c[p][i]]]
        /\ \E l \in [0..(sh[1] - 1) -> [0..(sh[2] - 1) -> PosteriorLogitVecs]] :
              tree_logits = [p \in 0..(sh[1] - 1) |->
                                [i \in 0..sh[2] |->
                                    IF i = sh[2] THEN [t \in Tokens |-> 0] ELSE l[p][i]]]
    /\ temperature \in Temperatures
    /\ posterior_threshold = DefaultPosteriorThreshold
    /\ posterior_alpha \in PosteriorAlphas
    /\ medusa_choices = Empty
    /\ medusa_topk = Empty
    /\ medusa_buffers = Empty
    /\ model = Empty
    /\ use_base_logits = FALSE
    /\ eos_token_id = None
    /\ pad_token_id = None
    /\ input_ids = Empty
    /\ prompt_len = 0
    /\ logits = Empty
    /\ medusa_logits = Empty
    /\ tree_candidates = Empty
    /\ best_candidate = 0
    /\ accept_length = 0
    /\ new_token = 0
    /\ next_tokens = Empty
    /\ medusa_update = Empty
    /\ unfinished_sequences = 1

\* evaluate_posterior once more on the same logits and candidates, with a larger
\* posterior_alpha
EvaluatePosteriorAgain ==
    /\ pc \in {"update", "compared"}
    /\ \E alpha \in PosteriorAlphas :
        /\ alpha > posterior_alpha
        /\ posterior_alpha' = alpha
        /\ LET r == EvaluatePosteriorResult(tree_logits, candidates, temperature,
                                            posterior_threshold, alpha)
           IN  /\ best_candidate' = r.best_candidate
               /\ accept_length' = r.accept_length
    /\ pc' = "compared"
    /\ UNCHANGED <<config, temperature, posterior_threshold, update_args,
                   medusa_buffers, input_ids, logits, medusa_logits, candidates,
                   tree_candidates, tree_logits, new_token, next_tokens,
                   medusa_update, unfinished_sequences>>

NextPosterior ==
    \/ EvaluatePosterior
    \/ EvaluatePosteriorAgain

SpecPosterior == InitPosterior /\ [][NextPosterior]_vars

\* ================================================================ claims
\* ------------------------------------------------------------ tree shape
\* generate_medusa_buffers has returned
Built == pc # "buffers"

\* the nodes of the tree
Nodes == DOMAIN medusa_buffers.medusa_attn_mask

\* the id of the first node of depth d: the depths above hold 1*b0, b0*b1, ... nodes
DepthStart(d) == SumTo(CumulativeProduct(medusa_choices), d)

\* the depth of node n: the level whose block of ids holds n
DepthOf(n) == CHOOSE d \in DOMAIN medusa_choices : DepthStart(d) <= n /\ n < DepthStart(d + 1)

\* the parent of node n of depth > 0: children of one parent are consecutive
ParentOf(n) ==
    LET d == DepthOf(n)
    IN  DepthStart(d - 1) + ((n - DepthStart(d)) \div medusa_choices[d])

RECURSIVE ChainOf(_)
\* node n and its ancestors
ChainOf(n) == IF DepthOf(n) = 0 THEN {n} ELSE {n} \cup ChainOf(ParentOf(n))

\* C3: retrieve_indices has product(b) rows of len(b) columns, all rows distinct;
\* row p holds one node of each depth, column i-1 holding the node that the
\* attention mask gives as the parent of column i, and every leaf ends one row.
PathTableEnumeratesPaths ==
    Built =>
        LET retrieve_indices == medusa_buffers.retrieve_indices
            mask == medusa_buffers.medusa_attn_mask
            position_ids == medusa_buffers.medusa_position_ids
            L == Size(medusa_choices)
        IN  /\ Size(retrieve_indices) = ProdTo(medusa_choices, L)
            /\ \A p \in DOMAIN retrieve_indices :
                /\ DOMAIN retrieve_indices[p] = 0..(L - 1)
                /\ \A i \in 0..(L - 1) :
                    /\ retrieve_indices[p][i] \in Nodes
                    /\ position_ids[retrieve_indices[p][i]] = i
                    /\ i > 0 =>
                        /\ mask[retrieve_indices[p][i]][retrieve_indices[p][i - 1]] = 1
                        /\ \A j \in Nodes :
                            (position_ids[j] = i - 1 /\ mask[retrieve_indices[p][i]][j] = 1)
                                => j = retrieve_indices[p][i - 1]
            /\ \A p, q \in DOMAIN retrieve_indices :
                retrieve_indices[p] = retrieve_indices[q] => p = q
            /\ \A n \in Nodes :
                position_ids[n] = L - 1 =>
                    \E p \in DOMAIN retrieve_indices : retrieve_indices[p][L - 1] = n

\* C3 witness: the BranchSpec [2, 3] is built: 8 nodes, 6 rows of length 2
PathTableWitness ==
    /\ Built
    /\ medusa_choices = [i \in {0, 1} |-> IF i = 0 THEN 2 ELSE 3]
    /\ Size(medusa_buffers.medusa_attn_mask) = 8
    /\ Size(medusa_buffers.retrieve_indices) = 6
    /\ Size(medusa_buffers.retrieve_indices[5]) = 2

\* C4: row i of the attention mask is binary, holds depth(i)+1 ones, and
\* mask[i][j] = 1 exactly for j = i and the ancestors of i.
AncestryMaskIsChain ==
    Built =>
        LET mask == medusa_buffers.medusa_attn_mask
        IN  /\ Size(mask) = MedusaLen(medusa_choices)
            /\ \A i \in Nodes :
                /\ DOMAIN mask[i] = Nodes
                /\ \A j \in Nodes : mask[i][j] = (IF j \in ChainOf(i) THEN 1 ELSE 0)
                /\ Cardinality({j \in Nodes : mask[i][j] = 1}) = DepthOf(i) + 1
                /\ medusa_buffers.medusa_position_ids[i] = DepthOf(i)

\* C4 witness: a built tree with a node of depth 2 whose parent is not the first
\* node of its level
AncestryMaskWitness ==
    /\ Built
    /\ \E n \in Nodes :
        /\ DepthOf(n) = 2
        /\ ParentOf(n) # DepthStart(1)
        /\ ParentOf(ParentOf(n)) # 0
        /\ medusa_buffers.medusa_attn_mask[n][ParentOf(ParentOf(n))] = 1

\* ------------------------------------------------------------ candidates
\* generate_candidates has run in this step and its inputs are still in place
HaveCandidates == pc \in {"tree", "posterior", "update"}

\* tree_decoding has run in this step and the sequence is not yet extended
HaveTreeLogits == pc \in {"posterior", "update"}

\* evaluate_posterior has run in this step
HavePosterior == pc = "update"

\* the BranchSpec is [1] followed by the per-head top-K
TreeOverTopK == medusa_choices = Cat([i \in {0} |-> 1], medusa_topk)

\* C5: every row of PathCandidates starts with the same root token, the first
\* token of the largest base logit at the last position.
RootIsBaseArgmax ==
    HaveCandidates =>
        \A p \in DOMAIN candidates :
            /\ candidates[p][0] = candidates[0][0]
            /\ \A t \in Tokens :
                /\ logits[t] <= logits[candidates[p][0]]
                /\ t < candidates[p][0] => logits[t] < logits[candidates[p][0]]

\* C5 witness: several paths, and the heads' best token is not the base argmax
RootWitness ==
    /\ pc = "tree"
    /\ Size(candidates) >= 2
    /\ logits[1] > logits[0]
    /\ candidates[1][0] = 1
    /\ \A h \in DOMAIN medusa_logits : medusa_logits[h][0] > medusa_logits[h][1]

\* C6: with BranchSpec = [1] + top-K, TreeCandidates has N entries, PathCandidates
\* has product(top-K) = numPaths rows, the token of tree node retrieve_indices[p][i]
\* is PathCandidates[p][i], and the reordered logits at (p, i) are the model's
\* logits after the sequence followed by PathCandidates[p][0..i].
LayoutsAgree ==
    (HaveCandidates /\ TreeOverTopK) =>
        LET retrieve_indices == medusa_buffers.retrieve_indices
        IN  /\ Size(tree_candidates) = MedusaLen(medusa_choices)
            /\ Size(candidates) = ProdTo(medusa_topk, Size(medusa_topk))
            /\ Size(candidates) = Size(retrieve_indices)
            /\ \A p \in DOMAIN candidates :
                /\ DOMAIN candidates[p] = DOMAIN retrieve_indices[p]
                /\ \A i \in DOMAIN candidates[p] :
                    /\ tree_candidates[retrieve_indices[p][i]] = candidates[p][i]
                    /\ HaveTreeLogits =>
                        tree_logits[p][i]
                            = Forward(model, Cat(input_ids, Slice(candidates[p], i + 1)))

\* C6 witness: two heads of two tokens each, the tree verified, and the logits
\* differ along the second path and between the first two paths
LayoutsWitness ==
    /\ pc = "posterior"
    /\ TreeOverTopK
    /\ Size(medusa_topk) = 2
    /\ Size(candidates) = 4
    /\ candidates[1][1] # candidates[2][1]
    /\ tree_logits[1][0] # tree_logits[1][1]
    /\ tree_logits[0][2] # tree_logits[1][2]

\* ------------------------------------------------------------- acceptance
\* positions a path can be accepted at
AcceptDepth == Size(tree_logits[0]) - 1

\* acceptMask[p][i]: the token path p proposes at i+1 is the verified argmax at i
Accepts(p, i) == candidates[p][i + 1] = Argmax(tree_logits[p][i])

\* length of the longest all-true prefix of acceptMask[p]
PrefixLength(p) ==
    CHOOSE k \in 0..AcceptDepth :
        /\ \A i \in 0..(k - 1) : Accepts(p, i)
        /\ k < AcceptDepth => ~Accepts(p, k)

\* C7: in greedy mode accept_length is the largest prefix length of any path, the
\* best path has that prefix length, 0 <= accept_length <= depth; and when path 0
\* matches everywhere and no other path matches beyond position 0, the result is
\* path 0 at full depth.
GreedyAcceptsLongestPrefix ==
    HavePosterior =>
        /\ accept_length \in 0..AcceptDepth
        /\ best_candidate \in DOMAIN candidates
        /\ \A p \in DOMAIN candidates : PrefixLength(p) <= accept_length
        /\ PrefixLength(best_candidate) = accept_length
        /\ ( /\ PrefixLength(0) = AcceptDepth
             /\ \A p \in DOMAIN candidates :
                   p # 0 => \A i \in 1..(AcceptDepth - 1) : ~Accepts(p, i) )
           => (best_candidate = 0 /\ accept_length = AcceptDepth)

\* C7 witness: path 0 is accepted at full depth 2 while another path matches
\* after its first mismatch
GreedyAcceptWitness ==
    /\ HavePosterior
    /\ AcceptDepth = 2
    /\ best_candidate = 0
    /\ accept_length = 2
    /\ \E p \in DOMAIN candidates : ~Accepts(p, 0) /\ Accepts(p, 1)

\* C8: among the paths of the largest prefix length the lowest id is returned,
\* and (0, 0) when that length is 0.
GreedyTieLowestPath ==
    HavePosterior =>
        /\ \A p \in DOMAIN candidates :
              PrefixLength(p) = accept_length => best_candidate <= p
        /\ accept_length = 0 => best_candidate = 0

\* C8 witness: two paths tie at a prefix length above 0, neither being path 0
GreedyTieWitness ==
    /\ HavePosterior
    /\ accept_length > 0
    /\ best_candidate > 0
    /\ \E p \in DOMAIN candidates :
          p > best_candidate /\ PrefixLength(p) = accept_length

\* ------------------------------------------------------ typical acceptance
\* the thresholds evaluate_posterior computes from these arguments
ThresholdsOf(lgts, temp, threshold, alpha) ==
    Threshold(ExpNegPosteriorEntropy(PosteriorProb(lgts, temp)), threshold, alpha)

\* this step evaluates the same logits and candidates with a larger posterior_alpha
AlphaRaised == pc' = "compared" /\ posterior_alpha' > posterior_alpha

\* no threshold is lower after the step than before it
ThresholdsNotLowered ==
    LET before == ThresholdsOf(tree_logits, temperature, posterior_threshold,
                               posterior_alpha)
        after == ThresholdsOf(tree_logits', temperature', posterior_threshold',
                              posterior_alpha')
    IN  \A p \in DOMAIN before : \A i \in DOMAIN before[p] : before[p][i] <= after[p][i]

\* the acceptance length of every path before and after the step
LengthsBefore ==
    TypicalAcceptLengths(tree_logits, candidates, temperature, posterior_threshold,
                         posterior_alpha)

LengthsAfter ==
    TypicalAcceptLengths(tree_logits', candidates', temperature',
                         posterior_threshold', posterior_alpha')

\* C9: with temperature > 0 and the same logits, a larger posterior_alpha lowers
\* no threshold min(posterior_threshold, exp(-entropy) * posterior_alpha), and
\* raises neither the acceptance length of any path nor the returned
\* accept_length.
LargerAlphaNeverLengthens ==
    [][AlphaRaised =>
          /\ ThresholdsNotLowered
          /\ \A p \in DOMAIN LengthsBefore : LengthsAfter[p] <= LengthsBefore[p]
          /\ accept_length' <= accept_length]_vars

\* C9 as stated: a larger posterior_alpha lowers no threshold, and lowers neither
\* the acceptance length of any path nor the returned accept_length.
LargerAlphaNeverShortens ==
    [][AlphaRaised =>
          /\ ThresholdsNotLowered
          /\ \A p \in DOMAIN LengthsBefore : LengthsAfter[p] >= LengthsBefore[p]
          /\ accept_length' >= accept_length]_vars

\* C9 witness: two paths of two positions evaluated again with the default
\* posterior_alpha, where nothing is accepted, while the smallest posterior_alpha
\* accepts a whole path and the thresholds differ
LargerAlphaWitness ==
    /\ pc = "compared"
    /\ posterior_alpha = DefaultPosteriorAlpha
    /\ Size(candidates) = 2
    /\ Size(candidates[0]) = 3
    /\ accept_length = 0
    /\ MaxOf(TypicalAcceptLengths(tree_logits, candidates, temperature,
                                  posterior_threshold, 5)) = 2
    /\ ThresholdsOf(tree_logits, temperature, posterior_threshold, 5)[0][0]
          < ThresholdsOf(tree_logits, temperature, posterior_threshold,
                         posterior_alpha)[0][0]

\* -------------------------------------------------------- committed tokens
\* update_inference_inputs has returned at least once and no step is under way
BetweenSteps == pc \in {"candidates", "done"} /\ new_token > 0

\* the sequence has met no end token: nothing was replaced by the padding token
NeverPadded == unfinished_sequences = 1

\* this step is a call of update_inference_inputs that returns
UpdateReturns == pc = "update" /\ pc' \in {"candidates", "done"}

\* C10: with use_base_logits the call appends the accept_length + 1 tokens of the
\* best path and then exactly one bonus token, the argmax of the verified logits
\* at position accept_length of the best path.
OneBonusTokenAfterPrefix ==
    [][(UpdateReturns /\ use_base_logits' /\ NeverPadded) =>
          /\ Size(next_tokens') = accept_length + 2
          /\ \A i \in 0..accept_length :
                next_tokens'[i] = candidates[best_candidate][i]
          /\ next_tokens'[accept_length + 1]
                = Argmax(tree_logits[best_candidate][accept_length])]_vars

\* the token ordinary greedy decoding emits after the first n tokens of ids
GreedyToken(ids, n) == Argmax(Forward(model, Slice(ids, n)))

\* every token after the prompt is the base model's argmax given the tokens before
IsGreedyDecoding(ids) ==
    \A n \in prompt_len..(Size(ids) - 1) : ids[n] = GreedyToken(ids, n)

\* C1: in greedy mode the committed sequence is the one ordinary greedy decoding
\* of the same model produces from the same prompt, whatever the BranchSpec and
\* top-K.
MatchesGreedyDecoding ==
    (BetweenSteps /\ NeverPadded) => IsGreedyDecoding(input_ids)

\* C2: with BranchSpec = [1] and top-K = [1] the committed sequence matches
\* ordinary greedy decoding after any number of steps.
NoSpeculationMatchesGreedy ==
    ( /\ BetweenSteps
      /\ NeverPadded
      /\ medusa_choices = [i \in {0} |-> 1]
      /\ medusa_topk = [i \in {0} |-> 1] )
        => IsGreedyDecoding(input_ids)

\* a step without the bonus token keeps the committed sequence the greedy one and
\* hands the logits after its last token to the next step
GreedyStepWithoutBonus ==
    [][( /\ UpdateReturns
         /\ ~use_base_logits'
         /\ NeverPadded
         /\ IsGreedyDecoding(input_ids)
         /\ logits = Forward(model, input_ids) )
        => /\ IsGreedyDecoding(input_ids')
           /\ logits' = Forward(model, input_ids')]_vars

\* ------------------------------------------------------ new-token counter
\* what the call added to the counter, and what it appended to the sequence
CounterIncrement == new_token' - new_token

TokensAppended == Size(input_ids') - Size(input_ids)

\* C11: each call of update_inference_inputs adds accept_length + 1 to the
\* counter, plus one with the bonus token, this is the number of tokens the call
\* appended, and afterwards the counter is the sequence length minus the prompt
\* length.
CounterCountsAppendedTokens ==
    [][UpdateReturns =>
          /\ CounterIncrement = accept_length + 1 + (IF use_base_logits' THEN 1 ELSE 0)
          /\ CounterIncrement = TokensAppended
          /\ new_token' = Size(input_ids') - prompt_len]_vars

\* the counter grows by accept_length + 1, plus one with the bonus token
CounterIncrementAsDocumented ==
    [][UpdateReturns =>
          CounterIncrement = accept_length + 1 + (IF use_base_logits' THEN 1 ELSE 0)]_vars

\* ------------------------------------------------------------ ValueError
\* this step is a call of update_inference_inputs with eos_token_id and without
\* pad_token_id
CalledWithoutPad ==
    pc = "update" /\ pc' # "update" /\ eos_token_id' # None /\ pad_token_id' = None

\* C12: called with eos_token_id and without pad_token_id, update_inference_inputs
\* raises, and it leaves the sequence as it was, does not call
\* model._update_medusa_outputs and leaves the counter as it was.
RaisesBeforeMutation ==
    [][CalledWithoutPad =>
          /\ pc' = "error"
          /\ input_ids' = input_ids
          /\ medusa_update' = medusa_update
          /\ new_token' = new_token]_vars

\* C12 witness: the call raised in a later step, after tokens were committed and
\* with several tokens accepted
RaisesWitness ==
    /\ pc = "error"
    /\ eos_token_id # None
    /\ pad_token_id = None
    /\ accept_length > 0
    /\ new_token > 0
    /\ Size(input_ids) = prompt_len + Size(next_tokens)

\* ------------------------------------------------------ BranchSpec checks
\* the list is empty or holds a zero or negative entry
InvalidBranchSpec ==
    Size(medusa_choices) = 0 \/ \E i \in DOMAIN medusa_choices : medusa_choices[i] <= 0

\* C13: generate_medusa_buffers rejects an empty BranchSpec and one with a zero
\* or negative entry with a configuration error (pc = "error", the error of the
\* code's own checks) and returns no buffers.
RejectsInvalidBranchSpec ==
    (pc # "buffers" /\ InvalidBranchSpec) =>
        (pc = "error" /\ medusa_buffers = Empty)

\* an empty BranchSpec or one with a zero or negative entry ends in an exception
\* of torch or Python and returns no buffers; every other one returns
InvalidBranchSpecFails ==
    pc # "buffers" =>
        IF InvalidBranchSpec
        THEN /\ medusa_buffers = Empty
             /\ pc = (IF Size(medusa_choices) = 0 THEN pc
                      ELSE IF \E i \in DOMAIN medusa_choices : medusa_choices[i] < 0
                           THEN "RuntimeError"
                      ELSE "ZeroDivisionError")
             /\ pc \in {"TypeError", "IndexError", "RuntimeError", "ZeroDivisionError"}
        ELSE pc = "candidates" /\ medusa_buffers # Empty

\* ------------------------------------------------------------ cache rows
\* the values of a tensor
Values(t) == {t[i] : i \in DOMAIN t}

\* the last accepted node of the best path
LastAccepted == medusa_buffers.retrieve_indices[best_candidate][accept_length]

Stopped == pc \in {"done", "error"}

\* calls the loop can still make: four for every token below the maximum length,
\* less those already made in the step under way
CallsLeft ==
    LET whole_steps == 4 * (MaxLength - Size(input_ids))
    IN  CASE Stopped -> 0
          [] pc = "buffers" -> whole_steps + 1
          [] pc = "candidates" -> whole_steps
          [] pc = "tree" -> whole_steps - 1
          [] pc = "posterior" -> whole_steps - 2
          [] pc = "update" -> whole_steps - 3

\* C15: every call of update_inference_inputs that returns leaves the sequence
\* strictly longer, also with accept_length = 0 and best_candidate = 0, and the
\* loop stops: every call lowers the number of calls the loop can still make,
\* which is never negative.
EveryStepProgresses ==
    [][/\ UpdateReturns => Size(input_ids') > Size(input_ids)
       /\ CallsLeft' < CallsLeft
       /\ CallsLeft' >= 0]_vars

\* C15 witness: the loop reached the maximum length by a step that accepted
\* nothing but the root token
ProgressWitness ==
    /\ pc = "done"
    /\ unfinished_sequences = 1
    /\ Size(input_ids) >= MaxLength
    /\ medusa_update.accept_length = 0
    /\ Size(next_tokens) = 1
    /\ Size(medusa_choices) > 1

====
